---- MODULE Spec2Model ----
(***************************************************************************)
(* Model of formats/esq8_dsk.cpp: the Ensoniq Mirage/SQ-80 floppy image    *)
(* format (esq8img_format).                                                *)
(*                                                                         *)
(* Spec: the container operations find_size, identify, load and save, as   *)
(* one sequential program whose operation is chosen in the initial state.  *)
(* The results of io.length, read_at, write_at, get_geometry_mfm_pc and of *)
(* the sector extraction are inputs.                                       *)
(*                                                                         *)
(* SpecTrack: one call of generate_track from load, walking esq_6_desc     *)
(* entry by entry over a full track record of 5632 bytes and emitting MFM  *)
(* cells, followed by the sector extraction save applies to such a track.  *)
(***************************************************************************)
EXTENDS Integers, Sequences, FiniteSets, TLC

VARIABLES
    op,            \* the member function being run: "identify", "load", "save"
    pc,            \* position inside it
    len_err,       \* std::error_condition value returned by io.length (0: none)
    len_size,      \* the size io.length stores on success
    track_count, head_count, sector_count,   \* the locals of the same names
    ret,           \* the value returned ("none" while running)
    track, head, sector,                     \* loop counters
    sectors,       \* load: the desc_s array
    file_offset,   \* save: running offset of the next write
    probe,         \* save: what get_geometry_mfm_pc reported
    rd, nreads,    \* load: the last read_at (offset, and the track and head it was
                   \* issued for), number issued
    wr, nwrites,   \* save: the last write_at (offset, length, and the track, head
                   \* and sector it was issued for), number issued
    ext_size,      \* save: sectors[sector].size() as last compared
    n_ok,          \* save: number of extracted sectors that had the expected size
    io_failed,     \* some read_at/write_at reported an error or a short transfer
    sectdata,      \* load: the track record read from the container
    index,         \* generate_track: position in the layout descriptor
    sector_loop_start, sector_idx, sector_cnt, sector_limit,  \* its sector loop
    buffer,        \* generate_track: the cells emitted, 16 to an element
    crcs,          \* generate_track: the two checksum regions
    loop_log,      \* the sector index and the checksums emitted, per loop pass
    decoded        \* what the sector extraction recovers from the track

cvars == <<op, pc, len_err, len_size, track_count, head_count, sector_count, ret,
           track, head, sector, sectors, file_offset, probe, rd, nreads,
           wr, nwrites, ext_size, n_ok, io_failed>>

tvars == <<sectdata, index, sector_loop_start, sector_idx, sector_cnt, sector_limit,
           buffer, crcs, loop_log, decoded>>

vars == <<cvars, tvars>>

(***************************************************************************)
(* Bounds of the inputs                                                    *)
(***************************************************************************)
\* Container lengths offered to find_size lie within MaxSlack bytes of a
\* multiple of the track record size.
MaxSlack == 1
\* The probe reports at most MaxProbeHeads heads.
MaxProbeHeads == 2

\* Error values an I/O call may report; 0 is "no error" (std::error_condition).
IoErrors == {0, 5}

\* Outcomes of a read_at / write_at: the error value and whether the whole
\* request was transferred.
IoOutcomes == {<<0, TRUE>>, <<0, FALSE>>, <<5, FALSE>>}

track_size == (5 * 1024) + 512

ContainerSizes ==
    {n * track_size + d : n \in {0, 1, 40, 79, 80, 81, 160}, d \in (0 - MaxSlack)..MaxSlack}
        \cap Nat

ProbeGeometries ==
    {<<t, h, s>> : t \in {0, 80, 84}, h \in 0..MaxProbeHeads, s \in {0, 6, 9}}

\* Sizes extract_sectors_from_bitstream_mfm_pc may give a sector slot
\* (0: the sector was not found).
ExtractedSizes == {0, 256, 512, 1024}

(***************************************************************************)
(* find_size, identify                                                     *)
(***************************************************************************)
find_size_inverted(err, size) ==
    IF err # 0
      THEN IF size = 5632 * 80 THEN <<80, 1, 6>> ELSE <<0, 0, 0>>
      ELSE <<0, 0, 0>>

\* !io.length(size) is true when the error_condition holds no error.
find_size(err, size) ==
    IF err = 0
      THEN IF size = 5632 * 80 THEN <<80, 1, 6>> ELSE <<0, 0, 0>>
      ELSE <<0, 0, 0>>

identify(err, size) ==
    IF find_size(err, size)[1] # 0 THEN 50 ELSE 0

(***************************************************************************)
(* load                                                                    *)
(***************************************************************************)
load_sectors_short_tail(count) ==
    [i \in 0..(count - 1) |->
        IF i < 5
          THEN [data |-> 1024 * i, size |-> 1024, sector_id |-> i]
          ELSE [data |-> 5 * 512, size |-> 512, sector_id |-> i]]

\* The desc_s array set up by load: data is the offset into sectdata.
load_sectors(count) ==
    [i \in 0..(count - 1) |->
        IF i < 5
          THEN [data |-> 1024 * i, size |-> 1024, sector_id |-> i]
          ELSE [data |-> 5 * 1024, size |-> 512, sector_id |-> i]]

\* The offset handed to read_at for (track, head).
load_read_offset(t, h, hc) == (t * hc + h) * track_size

(***************************************************************************)
(* save                                                                    *)
(***************************************************************************)
normalize_geometry_no_head_fix(g) ==
    <<IF g[1] # 80 THEN 80 ELSE g[1], g[2], IF g[3] # 6 THEN 6 ELSE g[3]>>

\* Lines 150-158: the probed geometry forced to the supported one.
normalize_geometry(g) ==
    <<IF g[1] # 80 THEN 80 ELSE g[1],
      IF g[2] = 0 THEN 1 ELSE g[2],
      IF g[3] # 6 THEN 6 ELSE g[3]>>

sector_expected_size_all_1024(s) == 1024

sector_expected_size(s) == IF s < 5 THEN 1024 ELSE 512

next_file_offset_fixed_stride(off, size) == off + 1024

\* Line 183: file_offset += sector_expected_size.
next_file_offset(off, size) == off + size

(***************************************************************************)
(* The track layout esq_6_desc                                             *)
(***************************************************************************)
\* One desc_e entry; the fields an initializer leaves out are zero.
desc_e(type, p1, p2) == [type |-> type, p1 |-> p1, p2 |-> p2]

\* Lines 21-26.
esq_6_desc_lead ==
    << desc_e("MFM", \H4e, 80),
       desc_e("MFM", \H00, 12),
       desc_e("RAW", \H5224, 3),
       desc_e("MFM", \Hfc, 1),
       desc_e("MFM", \H4e, 50),
       desc_e("MFM", \H00, 12) >>

\* Line 27.
esq_6_desc_loop_start == << desc_e("SECTOR_LOOP_START", 0, 5) >>

esq_6_desc_id_field_crc_inside ==
    << desc_e("CRC_CCITT_START", 1, 0),
       desc_e("RAW", \H4489, 3),
       desc_e("MFM", \Hfe, 1),
       desc_e("TRACK_ID", 0, 0),
       desc_e("HEAD_ID", 0, 0),
       desc_e("SECTOR_ID", 0, 0),
       desc_e("SIZE_ID", 0, 0),
       desc_e("CRC", 1, 0),
       desc_e("CRC_END", 1, 0) >>

esq_6_desc_id_field_head_twice ==
    << desc_e("CRC_CCITT_START", 1, 0),
       desc_e("RAW", \H4489, 3),
       desc_e("MFM", \Hfe, 1),
       desc_e("TRACK_ID", 0, 0),
       desc_e("HEAD_ID", 0, 0),
       desc_e("HEAD_ID", 0, 0),
       desc_e("SIZE_ID", 0, 0),
       desc_e("CRC_END", 1, 0),
       desc_e("CRC", 1, 0) >>

\* Lines 28-36.
esq_6_desc_id_field ==
    << desc_e("CRC_CCITT_START", 1, 0),
       desc_e("RAW", \H4489, 3),
       desc_e("MFM", \Hfe, 1),
       desc_e("TRACK_ID", 0, 0),
       desc_e("HEAD_ID", 0, 0),
       desc_e("SECTOR_ID", 0, 0),
       desc_e("SIZE_ID", 0, 0),
       desc_e("CRC_END", 1, 0),
       desc_e("CRC", 1, 0) >>

\* Lines 37-38.
esq_6_desc_id_gap ==
    << desc_e("MFM", \H4e, 22),
       desc_e("MFM", \H00, 12) >>

\* Lines 39-44.
esq_6_desc_data_field ==
    << desc_e("CRC_CCITT_START", 2, 0),
       desc_e("RAW", \H4489, 3),
       desc_e("MFM", \Hfb, 1),
       desc_e("SECTOR_DATA", -1, 0),
       desc_e("CRC_END", 2, 0),
       desc_e("CRC", 2, 0) >>

esq_6_desc_data_gap_as_lead ==
    << desc_e("MFM", \H4e, 80),
       desc_e("MFM", \H00, 12) >>

\* Lines 45-46.
esq_6_desc_data_gap ==
    << desc_e("MFM", \H4e, 84),
       desc_e("MFM", \H00, 12) >>

\* Lines 47-49.
esq_6_desc_tail ==
    << desc_e("SECTOR_LOOP_END", 0, 0),
       desc_e("MFM", \H4e, 170),
       desc_e("END", 0, 0) >>

esq_6_desc ==
    esq_6_desc_lead \o esq_6_desc_loop_start \o esq_6_desc_id_field
        \o esq_6_desc_id_gap \o esq_6_desc_data_field \o esq_6_desc_data_gap
        \o esq_6_desc_tail

(***************************************************************************)
(* Cells, MFM and the CCITT checksum                                       *)
(***************************************************************************)
Pow2 == [i \in 0..16 |-> 2 ^ i]

\* The 2 * n cells of the n low bits of val, most significant bit first, each
\* bit preceded by its clock cell: a clock is set between two zero bits.
\* prec is the cell before the first.
mfm_w(prec, val, n) ==
    LET bit(i) == (val \div Pow2[i]) % 2
        before(i) == IF i = n - 1 THEN prec ELSE bit(i + 1)
        clock(i) == IF before(i) = 1 \/ bit(i) = 1 THEN 0 ELSE 1
        cells[i \in 0..n] ==
            IF i = 0 THEN 0
            ELSE cells[i - 1] + (2 * clock(i - 1) + bit(i - 1)) * Pow2[2 * (i - 1)]
    IN cells[n]

MfmTable == [prec \in 0..1 |-> [val \in 0..255 |-> mfm_w(prec, val, 8)]]

\* The bytes of a sequence as 16-cell words, prec being the cell before them.
mfm_bytes(prec, bytes) ==
    [i \in 1..Len(bytes) |->
        MfmTable[IF i = 1 THEN prec ELSE bytes[i - 1] % 2][bytes[i]]]

\* The data bits of a 16-cell word: every second cell.
data_byte(word) ==
    LET bits[j \in 0..8] ==
            IF j = 0 THEN 0
            ELSE bits[j - 1] + ((word \div Pow2[2 * (j - 1)]) % 2) * Pow2[j - 1]
    IN bits[8]

data_bytes(words) == [i \in 1..Len(words) |-> data_byte(words[i])]

xor8(a, b) ==
    LET x[i \in 0..8] ==
            IF i = 0 THEN 0
            ELSE x[i - 1]
                 + ((((a \div Pow2[i - 1]) % 2) + ((b \div Pow2[i - 1]) % 2)) % 2)
                   * Pow2[i - 1]
    IN x[8]

XorTable == [a \in 0..255 |-> [b \in 0..255 |-> xor8(a, b)]]

xor16(a, b) ==
    XorTable[a \div 256][b \div 256] * 256 + XorTable[a % 256][b % 256]

\* One byte shifted through the CCITT polynomial x^16 + x^12 + x^5 + 1.
RECURSIVE crc_shift(_, _)
crc_shift(v, n) ==
    IF n = 0 THEN v
    ELSE crc_shift(IF v >= 32768 THEN xor16((v * 2) % 65536, \H1021)
                   ELSE (v * 2) % 65536, n - 1)

CrcTable == [i \in 0..255 |-> crc_shift(i * 256, 8)]

crc_byte(crc, byte) ==
    xor16((crc % 256) * 256, CrcTable[XorTable[crc \div 256][byte]])

RECURSIVE crc_range(_, _, _, _)
crc_range(crc, bytes, i, j) ==
    IF crc < 0 \/ i > j THEN crc
    ELSE crc_range(crc_byte(crc, bytes[i]), bytes, i + 1, j)

\* The checksum of a byte sequence folded into crc, 32 bytes at a time.
RECURSIVE crc_from(_, _, _)
crc_from(crc, bytes, i) ==
    IF crc < 0 \/ i > Len(bytes) THEN crc
    ELSE crc_from(crc_range(crc, bytes, i,
                            IF i + 31 < Len(bytes) THEN i + 31 ELSE Len(bytes)),
                  bytes, i + 32)

calc_crc_ccitt(crc, bytes) == crc_from(crc, bytes, 1)

\* The SIZE_ID byte of a sector size: the number of halvings down to 128.
RECURSIVE size_id(_)
size_id(size) == IF size > 128 THEN 1 + size_id(size \div 2) ELSE 0

(***************************************************************************)
(* Sector extraction from the cells of a track                             *)
(***************************************************************************)
\* The 16 cells that start at cell pos, wrapping at the end of the track.
window(b, pos) ==
    LET k == pos \div 16
        r == pos % 16
        w0 == b[k + 1]
        w1 == b[((k + 1) % Len(b)) + 1]
    IN (w0 % Pow2[16 - r]) * Pow2[r] + (w1 \div Pow2[16 - r])

SetMin(S) == CHOOSE x \in S : \A y \in S : x <= y
SetMax(S) == CHOOSE x \in S : \A y \in S : x >= y

absent_sector ==
    [found |-> FALSE, track |-> 0, head |-> 0, size |-> 0, data |-> <<>>,
     id_crc_ok |-> FALSE, data_crc_ok |-> FALSE]

\* Finds the \H4489 sync marks at any cell position, takes the blocks that
\* follow an fe/ff mark as identification fields and those that follow an
\* f8..fb mark as data fields, and gives each sector id in 0..5 the data
\* field found 704 +/- 128 (up to 1008 + 128) cells after its identification
\* field, with the validity of both checksums.
extract_sectors_from_bitstream_mfm_pc(b) ==
    LET n == 16 * Len(b)
        W(p) == window(b, p % n)
        B(p) == data_byte(W(p))
        syncs == {p \in 0..(n - 1) : window(b, p) = \H4489}
        idblk == {p + 32 : p \in {q \in syncs : W(q + 16) \in {\H5554, \H5555}}}
        dblk == {p + 32 : p \in {q \in syncs :
                    W(q + 16) \in {\H554a, \H5549, \H5544, \H5545}}}
        datas(p) == {d \in dblk : d - p >= 704 - 128 /\ d - p <= 1008 + 128}
        usable == {p \in idblk : B(p + 48) < 8 /\ datas(p) # {}}
        field(p) ==
            LET ssize == 128 * Pow2[B(p + 48)]
                d == SetMin(datas(p))
            IN [found |-> TRUE,
                track |-> B(p),
                head |-> B(p + 16),
                size |-> ssize,
                data |-> [i \in 1..ssize |-> B(d + 16 * (i - 1))],
                id_crc_ok |->
                    calc_crc_ccitt(\Hffff, [i \in 1..8 |-> B(p - 64 + 16 * (i - 1))])
                        = B(p + 64) * 256 + B(p + 80),
                data_crc_ok |->
                    calc_crc_ccitt(\Hffff,
                        [i \in 1..(4 + ssize) |-> B(d - 64 + 16 * (i - 1))])
                        = B(d + 16 * ssize) * 256 + B(d + 16 * ssize + 16)]
    IN IF n < 100
         THEN [ids |-> {}, sect |-> [s \in 0..5 |-> absent_sector]]
         ELSE [ids |-> {B(p + 32) : p \in usable},
               sect |-> [s \in 0..5 |->
                   LET mine == {p \in usable : B(p + 32) = s}
                   IN IF mine = {} THEN absent_sector ELSE field(SetMax(mine))]]

(***************************************************************************)
(* Track contents offered to load                                          *)
(***************************************************************************)
\* Payload patterns 0..MaxSeed are tried.
MaxSeed == 2

\* The tracks generated.
TrackIds == {0, 79}

\* A sync run, marks and an identification field as payload bytes.
FakeField == << \Ha1, \Ha1, \Ha1, \Hfe, \H00, \H00, \H01, \H03,
                \Ha1, \Ha1, \Ha1, \Hfb, \H44, \H89, \H4e, \Hff >>

payload_byte(seed, i) ==
    CASE seed = 0 -> i \div 1024
      [] seed = 1 -> FakeField[(i % 16) + 1]
      [] OTHER -> (i * (2 * seed + 1) + seed) % 256

track_record(seed) == [i \in 1..track_size |-> payload_byte(seed, i - 1)]

(***************************************************************************)
(* Initial states                                                          *)
(***************************************************************************)
idle_crc == [open |-> FALSE, value |-> 0, start |-> -1, end |-> -1, write |-> -1,
             pass |-> -1]

TrackIdle ==
    /\ sectdata = <<>>
    /\ index = 0
    /\ sector_loop_start = 0 /\ sector_idx = 0 /\ sector_cnt = 0 /\ sector_limit = 0
    /\ buffer = <<>>
    /\ crcs = [id \in 1..2 |-> idle_crc]
    /\ loop_log = <<>>
    /\ decoded = <<>>

Idle ==
    /\ track_count = 0 /\ head_count = 0 /\ sector_count = 0
    /\ ret = "none"
    /\ track = 0 /\ head = 0 /\ sector = 0
    /\ sectors = <<>>
    /\ file_offset = 0
    /\ probe = <<0, 0, 0>>
    /\ rd = [off |-> 0, track |-> 0, head |-> 0] /\ nreads = 0
    /\ wr = [off |-> 0, len |-> 0, track |-> 0, head |-> 0, sector |-> 0]
    /\ nwrites = 0
    /\ ext_size = 0 /\ n_ok = 0
    /\ io_failed = FALSE

Init ==
    /\ TrackIdle
    /\ pc = "start"
    /\ \/ /\ op \in {"identify", "load"}
          /\ len_err \in IoErrors
          /\ len_size \in ContainerSizes
       \/ /\ op = "save"
          /\ len_err = 0
          /\ len_size = 0
    /\ Idle

(***************************************************************************)
(* Actions                                                                 *)
(***************************************************************************)
Identify ==
    /\ op = "identify" /\ pc = "start"
    /\ LET g == find_size(len_err, len_size) IN
         /\ track_count' = g[1] /\ head_count' = g[2] /\ sector_count' = g[3]
    /\ ret' = identify(len_err, len_size)
    /\ pc' = "done"
    /\ UNCHANGED <<op, len_err, len_size, track, head, sector, sectors, file_offset,
                   probe, rd, nreads, wr, nwrites, ext_size, n_ok,
                   io_failed>>
    /\ UNCHANGED tvars

\* Lines 106-127: find_size and the sector table.
LoadBegin ==
    /\ op = "load" /\ pc = "start"
    /\ LET g == find_size(len_err, len_size) IN
         /\ track_count' = g[1] /\ head_count' = g[2] /\ sector_count' = g[3]
         /\ sectors' = load_sectors(g[3])
    /\ track' = 0 /\ head' = 0
    /\ pc' = "load_loop"
    /\ UNCHANGED <<op, len_err, len_size, ret, sector, file_offset, probe, rd,
                   nreads, wr, nwrites, ext_size, n_ok, io_failed>>
    /\ UNCHANGED tvars

\* Lines 131-136: one pass of the head loop; the result of read_at is dropped.
\* nreads also counts the tracks handed to generate_track, whose walk of the
\* layout is the subject of SpecTrack.
LoadTrack ==
    /\ op = "load" /\ pc = "load_loop"
    /\ track < track_count /\ head < head_count
    /\ \E res \in IoOutcomes :
         io_failed' = (io_failed \/ res[1] # 0 \/ ~res[2])
    /\ rd' = [off |-> load_read_offset(track, head, head_count),
              track |-> track, head |-> head]
    /\ nreads' = nreads + 1
    /\ IF head + 1 < head_count
         THEN head' = head + 1 /\ track' = track
         ELSE head' = 0 /\ track' = track + 1
    /\ UNCHANGED <<op, pc, len_err, len_size, track_count, head_count, sector_count,
                   ret, sector, sectors, file_offset, probe, wr, nwrites,
                   ext_size, n_ok>>
    /\ UNCHANGED tvars

\* Lines 139-141.
LoadEnd ==
    /\ op = "load" /\ pc = "load_loop"
    /\ ~(track < track_count /\ head < head_count)
    /\ ret' = TRUE
    /\ pc' = "done"
    /\ UNCHANGED <<op, len_err, len_size, track_count, head_count, sector_count,
                   track, head, sector, sectors, file_offset, probe, rd, nreads,
                   wr, nwrites, ext_size, n_ok, io_failed>>
    /\ UNCHANGED tvars

\* Lines 146-158: the probe and the normalisation of what it reports.
SaveBegin ==
    /\ op = "save" /\ pc = "start"
    /\ \E g \in ProbeGeometries :
         /\ probe' = g
         /\ LET n == normalize_geometry(g) IN
              /\ track_count' = n[1] /\ head_count' = n[2] /\ sector_count' = n[3]
    /\ file_offset' = 0
    /\ track' = 0 /\ head' = 0 /\ sector' = 0
    /\ pc' = "save_loop"
    /\ UNCHANGED <<op, len_err, len_size, ret, sectors, rd, nreads, wr, nwrites, ext_size, n_ok, io_failed>>
    /\ UNCHANGED tvars

\* Lines 168-184: one pass of the sector loop, for an extracted sector of size sz.
SaveSector ==
    /\ op = "save" /\ pc = "save_loop"
    /\ track < track_count /\ head < head_count /\ sector < sector_count
    /\ \E sz \in ExtractedSizes :
         /\ ext_size' = sz
         /\ IF sz # sector_expected_size(sector)
              THEN /\ ret' = FALSE
                   /\ pc' = "done"
                   /\ UNCHANGED <<track, head, sector, file_offset, wr,
                                  nwrites, n_ok, io_failed>>
              ELSE /\ \E res \in IoOutcomes :
                        io_failed' = (io_failed \/ res[1] # 0 \/ ~res[2])
                   /\ wr' = [off |-> file_offset,
                             len |-> sector_expected_size(sector),
                             track |-> track, head |-> head, sector |-> sector]
                   /\ nwrites' = nwrites + 1
                   /\ n_ok' = n_ok + 1
                   /\ file_offset' = next_file_offset(file_offset, sector_expected_size(sector))
                   /\ IF sector + 1 < sector_count
                        THEN sector' = sector + 1 /\ head' = head /\ track' = track
                        ELSE /\ sector' = 0
                             /\ IF head + 1 < head_count
                                  THEN head' = head + 1 /\ track' = track
                                  ELSE head' = 0 /\ track' = track + 1
                   /\ UNCHANGED <<ret, pc>>
    /\ UNCHANGED <<op, len_err, len_size, track_count, head_count, sector_count,
                   sectors, probe, rd, nreads>>
    /\ UNCHANGED tvars

\* Line 188.
SaveEnd ==
    /\ op = "save" /\ pc = "save_loop"
    /\ ~(track < track_count /\ head < head_count)
    /\ ret' = TRUE
    /\ pc' = "done"
    /\ UNCHANGED <<op, len_err, len_size, track_count, head_count, sector_count,
                   track, head, sector, sectors, file_offset, probe, rd, nreads,
                   wr, nwrites, ext_size, n_ok, io_failed>>
    /\ UNCHANGED tvars

Next ==
    \/ Identify
    \/ LoadBegin
    \/ LoadTrack
    \/ LoadEnd
    \/ SaveBegin
    \/ SaveSector
    \/ SaveEnd

Spec == Init /\ [][Next]_vars

(***************************************************************************)
(* generate_track walking esq_6_desc, then the extraction                  *)
(***************************************************************************)
io_vars == <<op, len_err, len_size, track_count, head_count, sector_count, ret,
             track, head, sector, sectors, file_offset, probe, rd, nreads, wr,
             nwrites, ext_size, n_ok, io_failed, sectdata>>

\* load after a complete read_at of the record of (track, head), entering
\* generate_track(esq_6_desc, track, head, sectors, sector_count, 109376, image).
InitTrack ==
    /\ op = "load" /\ pc = "gen"
    /\ len_err = 0 /\ len_size = 5632 * 80
    /\ LET g == find_size(len_err, len_size) IN
         /\ track_count = g[1] /\ head_count = g[2] /\ sector_count = g[3]
         /\ sectors = load_sectors(g[3])
    /\ track \in TrackIds /\ head = 0 /\ sector = 0
    /\ ret = "none"
    /\ file_offset = 0 /\ probe = <<0, 0, 0>>
    /\ rd = [off |-> load_read_offset(track, head, head_count),
             track |-> track, head |-> head]
    /\ nreads = track * head_count + head + 1
    /\ wr = [off |-> 0, len |-> 0, track |-> 0, head |-> 0, sector |-> 0]
    /\ nwrites = 0 /\ ext_size = 0 /\ n_ok = 0
    /\ io_failed = FALSE
    /\ \E seed \in 0..MaxSeed : sectdata = track_record(seed)
    /\ index = 0
    /\ sector_loop_start = 0 /\ sector_idx = 0 /\ sector_cnt = 0 /\ sector_limit = 0
    /\ buffer = <<>>
    /\ crcs = [id \in 1..2 |-> idle_crc]
    /\ loop_log = <<>>
    /\ decoded = <<>>

cur == esq_6_desc[index + 1]

cells == 16 * Len(buffer)

\* The last cell written (0 for an empty buffer).
prec == IF Len(buffer) = 0 THEN 0 ELSE buffer[Len(buffer)] % 2

\* The open checksum regions accumulate the data bits of the words emitted.
accumulate(c, words) ==
    [id \in DOMAIN c |->
        IF c[id].open
          THEN [c[id] EXCEPT !.value = calc_crc_ccitt(@, data_bytes(words))]
          ELSE c[id]]

Emit(words) ==
    /\ buffer' = buffer \o words
    /\ crcs' = accumulate(crcs, words)
    /\ index' = index + 1
    /\ UNCHANGED <<pc, sector_loop_start, sector_idx, sector_cnt, sector_limit,
                   loop_log, decoded>>

GenMFM ==
    /\ pc = "gen" /\ cur.type = "MFM"
    /\ Emit(mfm_bytes(prec, [i \in 1..cur.p2 |-> cur.p1]))
    /\ UNCHANGED io_vars

GenRAW ==
    /\ pc = "gen" /\ cur.type = "RAW"
    /\ Emit([i \in 1..cur.p2 |-> cur.p1])
    /\ UNCHANGED io_vars

GenTrackId ==
    /\ pc = "gen" /\ cur.type = "TRACK_ID"
    /\ Emit(mfm_bytes(prec, <<track>>))
    /\ UNCHANGED io_vars

GenHeadId ==
    /\ pc = "gen" /\ cur.type = "HEAD_ID"
    /\ Emit(mfm_bytes(prec, <<head>>))
    /\ UNCHANGED io_vars

GenSectorId ==
    /\ pc = "gen" /\ cur.type = "SECTOR_ID"
    /\ Emit(mfm_bytes(prec, <<sectors[sector_idx].sector_id>>))
    /\ UNCHANGED io_vars

GenSizeId ==
    /\ pc = "gen" /\ cur.type = "SIZE_ID"
    /\ Emit(mfm_bytes(prec, <<size_id(sectors[sector_idx].size)>>))
    /\ UNCHANGED io_vars

GenSectorData ==
    /\ pc = "gen" /\ cur.type = "SECTOR_DATA"
    /\ LET csect == sectors[IF cur.p1 >= 0 THEN cur.p1 ELSE sector_idx] IN
         Emit(mfm_bytes(prec, SubSeq(sectdata, csect.data + 1, csect.data + csect.size)))
    /\ UNCHANGED io_vars

GenCrcStart ==
    /\ pc = "gen" /\ cur.type = "CRC_CCITT_START"
    /\ crcs' = [crcs EXCEPT ![cur.p1] =
                   [open |-> TRUE, value |-> \Hffff, start |-> cells, end |-> -1,
                    write |-> -1, pass |-> sector_cnt]]
    /\ index' = index + 1
    /\ UNCHANGED <<pc, sector_loop_start, sector_idx, sector_cnt, sector_limit,
                   buffer, loop_log, decoded>>
    /\ UNCHANGED io_vars

GenCrcEnd ==
    /\ pc = "gen" /\ cur.type = "CRC_END"
    /\ crcs' = [crcs EXCEPT ![cur.p1].open = FALSE, ![cur.p1].end = cells]
    /\ index' = index + 1
    /\ UNCHANGED <<pc, sector_loop_start, sector_idx, sector_cnt, sector_limit,
                   buffer, loop_log, decoded>>
    /\ UNCHANGED io_vars

\* The 16 bits of the checksum, high byte first.
GenCrc ==
    /\ pc = "gen" /\ cur.type = "CRC"
    /\ LET v == crcs[cur.p1].value
           words == mfm_bytes(prec, <<v \div 256, v % 256>>)
       IN /\ buffer' = buffer \o words
          /\ crcs' = accumulate([crcs EXCEPT ![cur.p1].write = cells], words)
    /\ index' = index + 1
    /\ UNCHANGED <<pc, sector_loop_start, sector_idx, sector_cnt, sector_limit,
                   loop_log, decoded>>
    /\ UNCHANGED io_vars

GenLoopStart ==
    /\ pc = "gen" /\ cur.type = "SECTOR_LOOP_START"
    /\ sector_loop_start' = index
    /\ sector_idx' = cur.p1
    /\ sector_cnt' = cur.p1
    /\ sector_limit' = IF cur.p2 = -1 THEN sector_count - 1 ELSE cur.p2
    /\ index' = index + 1
    /\ UNCHANGED <<pc, buffer, crcs, loop_log, decoded>>
    /\ UNCHANGED io_vars

\* The checksums of the pass are settled; the loop goes back for the next
\* sector while sector_cnt < sector_limit.
GenLoopEnd ==
    /\ pc = "gen" /\ cur.type = "SECTOR_LOOP_END"
    /\ loop_log' = Append(loop_log,
                          <<sector_idx, {id \in DOMAIN crcs : crcs[id].write # -1}>>)
    /\ crcs' = [id \in DOMAIN crcs |-> [crcs[id] EXCEPT !.write = -1]]
    /\ IF sector_cnt < sector_limit
         THEN /\ sector_cnt' = sector_cnt + 1
              /\ sector_idx' = sector_idx + 1
              /\ index' = sector_loop_start + 1
         ELSE /\ index' = index + 1
              /\ UNCHANGED <<sector_cnt, sector_idx>>
    /\ UNCHANGED <<pc, sector_loop_start, sector_limit, buffer, decoded>>
    /\ UNCHANGED io_vars

GenEnd ==
    /\ pc = "gen" /\ cur.type = "END"
    /\ pc' = "gen_done"
    /\ UNCHANGED <<index, sector_loop_start, sector_idx, sector_cnt, sector_limit,
                   buffer, crcs, loop_log, decoded>>
    /\ UNCHANGED io_vars

\* save's extraction applied to the track generated.
Extract ==
    /\ pc = "gen_done"
    /\ decoded' = extract_sectors_from_bitstream_mfm_pc(buffer)
    /\ pc' = "extracted"
    /\ UNCHANGED <<index, sector_loop_start, sector_idx, sector_cnt, sector_limit,
                   buffer, crcs, loop_log>>
    /\ UNCHANGED io_vars

NextTrack ==
    \/ GenMFM
    \/ GenRAW
    \/ GenTrackId
    \/ GenHeadId
    \/ GenSectorId
    \/ GenSizeId
    \/ GenSectorData
    \/ GenCrcStart
    \/ GenCrcEnd
    \/ GenCrc
    \/ GenLoopStart
    \/ GenLoopEnd
    \/ GenEnd
    \/ Extract

SpecTrack == InitTrack /\ [][NextTrack]_vars


(***************************************************************************)
(* Properties of the container operations                                  *)
(***************************************************************************)

\* C1: find_size yields (80, 1, 6) exactly when the length query succeeded
\* with a length of 450560 bytes and (0, 0, 0) otherwise; identify returns 50
\* in exactly that case and 0 otherwise.
C1_GeometryRecognitionExact ==
    (op \in {"identify", "load"} /\ pc # "start") =>
        LET recognized == len_err = 0 /\ len_size = 450560 IN
          /\ <<track_count, head_count, sector_count>> =
                 IF recognized THEN <<80, 1, 6>> ELSE <<0, 0, 0>>
          /\ op = "identify" => ret = IF recognized THEN 50 ELSE 0

C1_Witness ==
    op = "identify" /\ pc = "done" /\ ret = 50 /\ track_count = 80

\* C4: save returns false at the first extracted sector whose size differs
\* from the expected one, without writing that sector or any later one, every
\* earlier sector having been written; it returns true only when all
\* 80 * head_count * 6 sectors had the expected size.
C4_SaveAbortsOnFirstMismatch ==
    [][op = "save" =>
         LET expected == IF sector < 5 THEN 1024 ELSE 512
             position == (track * head_count + head) * 6 + sector
         IN
           /\ (pc = "save_loop" /\ track < track_count /\ ext_size' # expected) =>
                 /\ pc' = "done" /\ ret' = FALSE
                 /\ nwrites' = nwrites /\ wr' = wr
                 /\ nwrites = position /\ n_ok = position
           /\ (pc = "save_loop" /\ track < track_count /\ ext_size' = expected) =>
                 /\ pc' = "save_loop" /\ nwrites' = nwrites + 1
                 /\ wr'.track = track /\ wr'.head = head /\ wr'.sector = sector
           /\ (pc' = "done" /\ ret' = FALSE) =>
                 (pc = "save_loop" /\ ext_size' # expected)
           /\ (pc' = "done" /\ ret' = TRUE) =>
                 (n_ok' = 80 * head_count' * 6 /\ nwrites' = n_ok')
           /\ pc = "done" => (nwrites' = nwrites /\ pc' = "done")
    ]_vars

C4_Witness ==
    /\ op = "save" /\ pc = "done" /\ ret = FALSE
    /\ track = 79 /\ head = 1 /\ sector = 5 /\ ext_size = 1024
    /\ nwrites = 959

\* C5: when a read_at of load or a write_at of save reports a failure or a
\* short transfer, the enclosing call does not report success.
C5_IoFailurePropagates ==
    (op \in {"load", "save"} /\ pc = "done" /\ io_failed) => ret # TRUE

\* C6: whatever geometry the probe reports, the extraction loops of save run
\* with 80 tracks, 6 sectors and the probed head count, or 1 head when the
\* probe reports none.
C6_SaveGeometryNormalized ==
    (op = "save" /\ pc # "start") =>
        /\ track_count = 80
        /\ sector_count = 6
        /\ head_count = IF probe[2] # 0 THEN probe[2] ELSE 1

C6_Witness ==
    op = "save" /\ pc = "save_loop" /\ probe = <<0, 0, 0>> /\ nwrites > 0

\* C7: load takes sector s of (t, h) from the container offset at which save
\* writes it, (t * head_count + h) * 5632 + 1024 * s; sectors 0-4 take 1024
\* bytes each and sector 5 the last 512 bytes of the track record, and the six
\* ranges are disjoint and cover the record.
C7_LoadSaveLayoutAgree ==
    LET size(s) == IF s < 5 THEN 1024 ELSE 512
        offset(t, h, s) == (t * head_count + h) * 5632 + 1024 * s
    IN
      /\ (op = "load" /\ nreads > 0) =>
            /\ DOMAIN sectors = 0..5
            /\ \A s \in 0..5 :
                  /\ rd.off + sectors[s].data = offset(rd.track, rd.head, s)
                  /\ sectors[s].size = size(s)
                  /\ sectors[s].sector_id = s
            /\ sectors[0].data = 0
            /\ \A s \in 0..4 : sectors[s + 1].data = sectors[s].data + sectors[s].size
            /\ sectors[5].data + sectors[5].size = track_size
      /\ (op = "save" /\ nwrites > 0) =>
            /\ wr.off = offset(wr.track, wr.head, wr.sector)
            /\ wr.len = size(wr.sector)
            /\ wr.off = load_read_offset(wr.track, wr.head, head_count)
                          + load_sectors(6)[wr.sector].data
            /\ wr.len = load_sectors(6)[wr.sector].size

C7_Witness ==
    /\ op = "save" /\ nwrites > 0
    /\ head_count = 2 /\ wr.track = 79 /\ wr.head = 1 /\ wr.sector = 5

\* C8: the writes of save are contiguous and ascending: the first is at
\* offset 0 and each later one starts where the previous one ended; each is
\* of 1024 or 512 bytes.
C8_SaveWritesContiguous ==
    [][nwrites' # nwrites =>
         /\ nwrites' = nwrites + 1
         /\ wr'.off = IF nwrites = 0 THEN 0 ELSE wr.off + wr.len
         /\ wr'.len \in {1024, 512}
         /\ nwrites > 0 => wr'.off > wr.off
    ]_vars

C8_Witness ==
    /\ op = "save" /\ head_count = 2 /\ nwrites = 13
    /\ wr.track = 1 /\ wr.head = 0 /\ wr.sector = 0

\* C10: a save that returns true, all writes having succeeded, has written
\* a container of exactly 450560 bytes, which find_size recognizes as
\* (80, 1, 6); stated for a medium probed as 80 tracks of 6 sectors with
\* any head count.
C10_SaveOutputReloadable ==
    (op = "save" /\ pc = "done" /\ ret = TRUE /\ ~io_failed
        /\ probe[1] = 80 /\ probe[3] = 6) =>
        /\ file_offset = 450560
        /\ find_size(0, file_offset) = <<80, 1, 6>>

(***************************************************************************)
(* Properties of the track layout                                          *)
(***************************************************************************)

\* C2: the track generated from esq_6_desc for six sectors with ids 0..5,
\* of 1024 bytes (ids 0-4) and 512 bytes (id 5), decodes to exactly those six
\* sector ids with every payload byte as in the track record, the track and
\* head of the identification fields as given, and both checksums of every
\* sector valid.
C2_RoundTrip ==
    pc = "extracted" =>
        /\ decoded.ids = 0..5
        /\ \A s \in 0..5 :
              LET d == decoded.sect[s]
                  size == IF s < 5 THEN 1024 ELSE 512
              IN /\ d.found
                 /\ d.track = track /\ d.head = head
                 /\ d.size = size
                 /\ d.data = SubSeq(sectdata, 1024 * s + 1, 1024 * s + size)
                 /\ d.id_crc_ok /\ d.data_crc_ok

C2_Witness ==
    /\ pc = "extracted" /\ track = 79
    /\ sectdata[1] = \Ha1 /\ sectdata[4] = \Hfe
    /\ decoded.sect[5].found /\ decoded.sect[5].data[4] = \Hfe

\* C3: one walk of esq_6_desc over sectors of 1024, 1024, 1024, 1024, 1024
\* and 512 bytes emits exactly 109376 cells, the loop body having run once
\* for each of the sector indexes 0..5, sector_count times in all.
C3_TrackCapacity ==
    pc \in {"gen_done", "extracted"} =>
        /\ 16 * Len(buffer) = 109376
        /\ [i \in 1..Len(loop_log) |-> loop_log[i][1]] = <<0, 1, 2, 3, 4, 5>>
        /\ Len(loop_log) = sector_count
        /\ [i \in 0..5 |-> sectors[i].size] = [i \in 0..5 |-> IF i < 5 THEN 1024 ELSE 512]

C3_Witness ==
    pc = "gen_done" /\ Len(loop_log) = 6 /\ Len(buffer) = 6836

\* C9: in every pass of the sector loop each checksum is emitted after its
\* region was closed, the region having been opened in the same pass; the
\* two regions are never open together; region 1 holds exactly the three
\* 4489 sync words, the fe mark and the track, head, sector and size bytes,
\* region 2 exactly the three sync words, the fb mark and the payload of the
\* sector, so no gap byte and no checksum byte lies in a region; the checksum
\* emitted is that of the region, and each pass emits both.
C9_ChecksumRegions ==
    /\ ~(crcs[1].open /\ crcs[2].open)
    /\ \A id \in 1..2 :
          crcs[id].write # -1 =>
              LET c == crcs[id]
                  region == SubSeq(buffer, (c.start \div 16) + 1, c.end \div 16)
                  size == IF sector_idx < 5 THEN 1024 ELSE 512
                  field ==
                      IF id = 1
                        THEN << \Hfe, track, head, sector_idx,
                                IF sector_idx < 5 THEN 3 ELSE 2 >>
                        ELSE << \Hfb >> \o SubSeq(sectdata, 1024 * sector_idx + 1,
                                                   1024 * sector_idx + size)
              IN /\ ~c.open
                 /\ c.pass = sector_cnt
                 /\ 0 <= c.start /\ c.start < c.end /\ c.end <= c.write
                 /\ SubSeq(region, 1, 3) = << \H4489, \H4489, \H4489 >>
                 /\ data_bytes(SubSeq(region, 4, Len(region))) = field
                 /\ data_bytes(SubSeq(buffer, (c.write \div 16) + 1, (c.write \div 16) + 2))
                      = << calc_crc_ccitt(\Hffff, data_bytes(region)) \div 256,
                           calc_crc_ccitt(\Hffff, data_bytes(region)) % 256 >>
    /\ \A i \in 1..Len(loop_log) : loop_log[i][2] = {1, 2}

C9_Witness ==
    /\ pc = "gen" /\ sector_idx = 5
    /\ crcs[1].write # -1 /\ crcs[2].write # -1
    /\ crcs[2].end - crcs[2].start = 16 * (4 + 512)

====
